---- MODULE Spec2Model ----
(***************************************************************************)
(* A model of tray.py, the UxPlay tray controller: the preference store    *)
(* (load_config / save_config), the window locator (find_uxplay_windows),  *)
(* the style applier (make_borderless / restore_style / set_topmost), the  *)
(* background reapply loop and the tray menu handlers.                      *)
(*                                                                         *)
(* Two threads run the program: "ui" is the main thread (module load,      *)
(* start_tray, the menu callbacks pystray runs inside icon.run) and "bg"   *)
(* is the daemon thread running reapply_loop.  A step of a thread is one   *)
(* access to shared state or one OS call; thread switches happen between   *)
(* steps.                                                                   *)
(*                                                                         *)
(* Abstractions.  A string is a sequence of one-character strings, so that *)
(* str.lower() and the substring test are computed.  A style bitmask is    *)
(* the set of the names of its set bits, so that x & ~m is x \ m.  JSON    *)
(* text is a sequence of <<key, tokens>> members.                          *)
(***************************************************************************)
EXTENDS Integers, Sequences, FiniteSets, TLC

\* ------------------------------------------------------------------ bounds

\* Window handles the OS hands out during a run: 1..MaxHwnd.
MaxHwnd == 2

\* OS calls on a live window that may fail transiently during a run.
MaxFaults == 1

Hwnd == 1..MaxHwnd

Threads == {"ui", "bg"}

\* ----------------------------------------------------------------- strings

\* str.lower() on one character: the upper-case letters of the alphabet used.
LowerChar(c) ==
    CASE c = "D" -> "d"
      [] c = "R" -> "r"
      [] c = "U" -> "u"
      [] c = "X" -> "x"
      [] OTHER -> c

\* str.lower()
Lower(s) == [i \in 1..Len(s) |-> LowerChar(s[i])]

\* sub in s, for strings
Contains(sub, s) ==
    \E i \in 0..(Len(s) - Len(sub)) :
        \A j \in 1..Len(sub) : s[i + j] = sub[j]

\* The elements of a sequence.
Range(s) == {s[i] : i \in 1..Len(s)}

\* ------------------------------------------------------- preference store

\* A preference record is a Python dict: a function from some of these keys.
\* dict.get(key, default)
Get(d, k, default) == IF k \in DOMAIN d THEN d[k] ELSE default

\* d[key] = value
Put(d, k, v) == [x \in (DOMAIN d) \cup {k} |-> IF x = k THEN v ELSE d[x]]

\* "Direct3D11 renderer", abbreviated to three characters.
DefaultTitle == <<"D", "3", "R">>

DEFAULT_CFG ==
    [borderless |-> FALSE,
     always_on_top |-> FALSE,
     title_substrings |-> <<DefaultTitle>>]

KeyOrder == <<"borderless", "always_on_top", "title_substrings">>

\* A JSON string literal: the characters between quotes.
Quote(s) == <<"\"">> \o s \o <<"\"">>

IsQuoted(tok) == Len(tok) >= 2 /\ tok[1] = "\"" /\ tok[Len(tok)] = "\""

Unquote(tok) == SubSeq(tok, 2, Len(tok) - 1)

\* A json.dumps that writes every bool as false.
EncodeBoolLost(k, v) ==
    IF k = "title_substrings"
    THEN [i \in 1..Len(v) |-> Quote(v[i])]
    ELSE << <<"false">> >>

\* The JSON text of one value: true / false for a bool, the quoted elements
\* for a list of strings.
Encode(k, v) ==
    IF k = "title_substrings"
    THEN [i \in 1..Len(v) |-> Quote(v[i])]
    ELSE << <<(IF v THEN "true" ELSE "false")>> >>

\* json.dumps(cfg, indent=2): the members in the order of the dict's keys.
Dumps(d) ==
    LET keys == SelectSeq(KeyOrder, LAMBDA k : k \in DOMAIN d)
    IN  [i \in 1..Len(keys) |-> <<keys[i], Encode(keys[i], d[keys[i]])>>]

\* Whether the text of one member's value is JSON this model can read.
ValueParses(k, toks) ==
    IF k = "title_substrings"
    THEN \A i \in 1..Len(toks) : IsQuoted(toks[i])
    ELSE toks \in { << <<"true">> >>, << <<"false">> >> }

\* Whether json.loads returns rather than raising.
Parses(text) ==
    /\ Len(text) >= 1
    /\ \A i \in 1..Len(text) : ValueParses(text[i][1], text[i][2])

Decode(k, toks) ==
    IF k = "title_substrings"
    THEN [i \in 1..Len(toks) |-> Unquote(toks[i])]
    ELSE toks = << <<"true">> >>

\* json.loads(text), for a text that parses; a repeated key keeps its last
\* value.
Loads(text) ==
    LET keys == {text[i][1] : i \in 1..Len(text)}
        last(k) == CHOOSE i \in 1..Len(text) :
                     /\ text[i][1] = k
                     /\ \A j \in (i + 1)..Len(text) : text[j][1] # k
    IN  [k \in keys |-> Decode(k, text[last(k)][2])]

\* The preference file: CONFIG_FILE.exists() and its text.
NoFile == [exists |-> FALSE, text |-> <<>>]

FileOf(text) == [exists |-> TRUE, text |-> text]

\* A save_config without its try / except: a failed write raises.
save_config_unguarded(f, d, canWrite) ==
    [file |-> IF canWrite THEN FileOf(Dumps(d)) ELSE f, raised |-> ~canWrite]

\* save_config(cfg): the file afterwards, and whether the call raised.  The
\* exception of a failed write is caught and logged; the file stays as it
\* was.
save_config(f, d, canWrite) ==
    [file |-> IF canWrite THEN FileOf(Dumps(d)) ELSE f, raised |-> FALSE]

\* load_config(): the record returned, the file afterwards, and whether the
\* call raised.  A file that is missing, or whose read or parse raises, gives
\* a copy of the defaults, which save_config writes out.
load_config(f, canWrite) ==
    IF f.exists /\ Parses(f.text)
    THEN [cfg |-> Loads(f.text), file |-> f, raised |-> FALSE]
    ELSE [cfg |-> DEFAULT_CFG,
          file |-> save_config(f, DEFAULT_CFG, canWrite).file,
          raised |-> save_config(f, DEFAULT_CFG, canWrite).raised]

\* ------------------------------------------------------------- OS windows

\* The bits of a window's GWL_STYLE this model tells apart.
StyleBits ==
    {"WS_CAPTION", "WS_THICKFRAME", "WS_MINIMIZEBOX", "WS_MAXIMIZEBOX",
     "WS_SYSMENU", "WS_VISIBLE"}

\* What _get_style returns when both GetWindowLong calls raise.
None == {"None"}

\* The styles a window is created with: an overlapped window with its full
\* chrome, a captioned window without resize border, a popup without chrome.
InitStyles ==
    { StyleBits,
      {"WS_CAPTION", "WS_SYSMENU", "WS_VISIBLE"},
      {"WS_VISIBLE"} }

\* Process names: "uxplay.exe", "UxPlay.exe", "uxplay", "explorer.exe".
ExeName == <<"u", "x", ".", "e">>

ExeNameMixed == <<"U", "x", ".", "e">>

BareName == <<"u", "x">>

OtherName == <<"e", "x", ".", "e">>

\* A handle the OS has not handed out yet, and one whose window was destroyed.
NoWindow ==
    [state |-> "none", title |-> <<>>, visible |-> FALSE, pid |-> 0,
     style |-> {}, topmost |-> FALSE, born |-> {}, bornTop |-> FALSE]

DeadWindow == [NoWindow EXCEPT !.state = "dead"]

\* A window as CreateWindow leaves it; born and bornTop remember the style
\* and the topmost state it was created with.
NewWindow(title, visible, pid, st, top) ==
    [state |-> "live", title |-> title, visible |-> visible, pid |-> pid,
     style |-> st, topmost |-> top, born |-> st, bornTop |-> top]

\* -------------------------------------------------------- window detection

\* enum_visible_windows(): the (hwnd, title) of the visible top-level windows
\* with a title, in enumeration order (here: the order of the handles).
enum_visible_windows(w) ==
    LET hs == SelectSeq([i \in 1..MaxHwnd |-> i],
                        LAMBDA h : /\ w[h].state = "live"
                                   /\ w[h].visible
                                   /\ w[h].title # <<>>)
    IN  [i \in 1..Len(hs) |-> <<hs[i], w[hs[i]].title>>]

\* substrs = [s.lower() for s in cfg.get("title_substrings", []) if s]
Substrs(d) ==
    LET given == SelectSeq(Get(d, "title_substrings", <<>>),
                           LAMBDA s : s # <<>>)
    IN  [i \in 1..Len(given) |-> Lower(given[i])]

\* any(sub in title.lower() for sub in substrs)
TitleMatches(title, substrs) ==
    \E i \in 1..Len(substrs) : Contains(substrs[i], Lower(title))

\* The primary scan: the handles of the visible windows whose title matches.
TitleScan(w, d) ==
    LET wins == enum_visible_windows(w)
        hit  == SelectSeq(wins, LAMBDA p : TitleMatches(p[2], Substrs(d)))
    IN  [i \in 1..Len(hit) |-> hit[i][1]]

\* The windows one process contributes to the fallback: the visible windows
\* it owns that have a title.
WindowsOfPid(w, pid) ==
    SelectSeq([i \in 1..MaxHwnd |-> i],
              LAMBDA h : /\ w[h].state = "live"
                         /\ w[h].pid = pid
                         /\ w[h].visible
                         /\ w[h].title # <<>>)

\* The fallback: for each process named uxplay.exe or uxplay, its windows.
RECURSIVE ProcessScan(_, _)
ProcessScan(w, ps) ==
    IF ps = <<>> THEN <<>>
    ELSE (IF Lower(Head(ps).name) \in {ExeName, BareName}
          THEN WindowsOfPid(w, Head(ps).pid)
          ELSE <<>>) \o ProcessScan(w, Tail(ps))

\* list(dict.fromkeys(matches)): the first occurrence of each element.
Dedupe(s) ==
    LET first == SelectSeq([i \in 1..Len(s) |-> i],
                           LAMBDA i : \A j \in 1..(i - 1) : s[j] # s[i])
    IN  [i \in 1..Len(first) |-> s[first[i]]]

\* A fallback entered without the test for psutil.
UsesFallbackUntested(matches, havePsutil) == matches = <<>>

\* A fallback entered whenever psutil was imported.
UsesFallbackAlways(matches, havePsutil) == havePsutil

\* Whether the fallback is entered: no title match, and psutil was imported.
UsesFallback(matches, havePsutil) == matches = <<>> /\ havePsutil

\* find_uxplay_windows()
find_uxplay_windows(w, d, havePsutil, ps) ==
    LET matches == TitleScan(w, d)
    IN  Dedupe(IF UsesFallback(matches, havePsutil)
               THEN ProcessScan(w, ps)
               ELSE matches)

\* --------------------------------------------------------- style operators

\* WS_CAPTION | WS_THICKFRAME | WS_MINIMIZEBOX | WS_MAXIMIZEBOX | WS_SYSMENU
ChromeBits ==
    {"WS_CAPTION", "WS_THICKFRAME", "WS_MINIMIZEBOX", "WS_MAXIMIZEBOX",
     "WS_SYSMENU"}

\* new_style = style & ~(...)
NewStyle(st) == st \ ChromeBits

\* A membership test that always finds the handle missing.
NotRecordedAlways(m, h) == TRUE

\* hwnd not in _original_styles
\* The map is total here; None stands for "no entry".
NotRecorded(m, h) == m[h] = None

\* _original_styles[hwnd] = style
RecordOriginal(m, h, st) == [m EXCEPT ![h] = st]

\* ------------------------------------------------------------------- state

VARIABLES
    win,              \* the OS's windows, by handle
    procs,            \* what psutil.process_iter lists: [pid, name] records
    psutil,           \* whether "import psutil" succeeded
    faults,           \* transient OS call failures so far
    file,             \* tray_config.json
    writable,         \* whether writing tray_config.json succeeds
    cfg,              \* the module-level preference dict
    original_styles,  \* _original_styles
    stop_event,       \* _stop_event.is_set()
    pc,               \* where each thread is
    hwnds,            \* per thread: the handles apply_settings_once has left
    style,            \* per thread: the local style / orig
    enable,           \* per thread: the argument of set_topmost
    ret,              \* per thread: where make_borderless / restore_style return to
    acted,            \* history: the user has clicked a menu item
    pre,              \* history, per handle: the style when the first of the
                      \* current run of style calls began
    calls,            \* history, per handle: the style calls of the current run
    ops,              \* history: the preference store calls made
    loaded,           \* what the last load_config() returned
    raised,           \* whether the last preference store call raised
    fileWas,          \* history: the preference file before the last call
    found             \* what the last find_uxplay_windows() returned

vars ==
    <<win, procs, psutil, faults, file, writable, cfg, original_styles,
      stop_event, pc, hwnds, style, enable, ret, acted, pre, calls, ops,
      loaded, raised, fileWas, found>>

\* The variables only the call-by-call specifications change.
drvVars == <<ret, pre, calls, ops, loaded, raised, fileWas, found>>

osVars == <<win, procs, psutil, faults>>

storeVars == <<file, writable>>

localVars == <<hwnds, style, enable>>

\* The handle a thread is working on.
Cur(t) == Head(hwnds[t])

Goto(t, where) == pc' = [pc EXCEPT ![t] = where]

\* How an OS call on window h can end: it raises on a destroyed window, and
\* may raise on a live one while the fault budget lasts.
Outcomes(h) ==
    IF win[h].state = "live"
    THEN {TRUE} \cup (IF faults < MaxFaults THEN {FALSE} ELSE {})
    ELSE {FALSE}

Charge(h, ok) == IF win[h].state = "live" /\ ~ok THEN faults + 1 ELSE faults

\* ------------------------------------------------------------ environment

\* The processes psutil lists while the tray runs: uxplay.exe and another.
RunProcs == << [pid |-> 1, name |-> ExeName], [pid |-> 2, name |-> OtherName] >>

\* The windows that come and go while the tray runs: the UxPlay renderer
\* window with its full chrome (not topmost, or made topmost by its owner or
\* another tool), a renderer window without chrome, and another program's
\* window.
RunWindows ==
    { NewWindow(DefaultTitle, TRUE, 1, StyleBits, FALSE),
      NewWindow(DefaultTitle, TRUE, 1, StyleBits, TRUE),
      NewWindow(DefaultTitle, TRUE, 1, {"WS_VISIBLE"}, FALSE),
      NewWindow(<<"x">>, TRUE, 2, StyleBits, FALSE) }

\* The OS creates a window; handles are handed out in ascending order.
CreateWindow(h) ==
    /\ win[h].state = "none"
    /\ \A g \in 1..(h - 1) : win[g].state # "none"
    /\ \E w \in RunWindows : win' = [win EXCEPT ![h] = w]
    /\ UNCHANGED <<drvVars, procs, psutil, faults, file, writable, cfg,
                   original_styles, stop_event, pc, hwnds, style, enable,
                   acted>>

\* The owning application destroys a window; its handle is never reused.
DestroyWindow(h) ==
    /\ win[h].state = "live"
    /\ win' = [win EXCEPT ![h] = DeadWindow]
    /\ UNCHANGED <<drvVars, procs, psutil, faults, file, writable, cfg,
                   original_styles, stop_event, pc, hwnds, style, enable,
                   acted>>

\* ------------------------------------------------------ apply_settings_once

\* Where a thread goes when apply_settings_once returns: the menu handler
\* returns to icon.run, the loop goes on to its wait.
AfterApply(t) == IF t = "ui" THEN "idle" ELSE "wait"

\* A cycle that, finding no window, drops the recorded originals as stale.
FindClearsStale(t) ==
    /\ pc[t] = "find"
    /\ LET hs == find_uxplay_windows(win, cfg, psutil, procs)
       IN  /\ hwnds' = [hwnds EXCEPT ![t] = hs]
           /\ Goto(t, IF hs = <<>> THEN AfterApply(t) ELSE "branch")
           /\ original_styles' = IF hs = <<>> THEN [h \in Hwnd |-> None]
                                  ELSE original_styles
    /\ UNCHANGED <<drvVars, osVars, storeVars, cfg, stop_event, style, enable,
                   acted>>

\* hwnds = find_uxplay_windows(); if not hwnds: return
Find(t) ==
    /\ pc[t] = "find"
    /\ LET hs == find_uxplay_windows(win, cfg, psutil, procs)
       IN  /\ hwnds' = [hwnds EXCEPT ![t] = hs]
           /\ Goto(t, IF hs = <<>> THEN AfterApply(t) ELSE "branch")
    /\ UNCHANGED <<drvVars, osVars, storeVars, cfg, original_styles, stop_event,
                   style, enable, acted>>

\* The branch with its arms swapped.
BranchInverted(t) ==
    /\ pc[t] = "branch"
    /\ Goto(t, IF Get(cfg, "borderless", FALSE) THEN "rs_get" ELSE "mb_get")
    /\ UNCHANGED <<drvVars, osVars, storeVars, cfg, original_styles, stop_event,
                   localVars, acted>>

\* if cfg.get("borderless"): make_borderless(h) else: restore_style(h)
Branch(t) ==
    /\ pc[t] = "branch"
    /\ Goto(t, IF Get(cfg, "borderless", FALSE) THEN "mb_get" ELSE "rs_get")
    /\ UNCHANGED <<drvVars, osVars, storeVars, cfg, original_styles, stop_event,
                   localVars, acted>>

\* make_borderless: style = _get_style(hwnd); if style is None: return
MbGet(t) ==
    /\ pc[t] = "mb_get"
    /\ \E ok \in Outcomes(Cur(t)) :
         /\ faults' = Charge(Cur(t), ok)
         /\ style' = [style EXCEPT ![t] = IF ok THEN win[Cur(t)].style ELSE None]
         /\ Goto(t, IF ok THEN "mb_chk" ELSE ret[t])
    /\ UNCHANGED <<drvVars, win, procs, psutil, storeVars, cfg, original_styles,
                   stop_event, hwnds, enable, acted>>

\* make_borderless: if hwnd not in _original_styles
MbChk(t) ==
    /\ pc[t] = "mb_chk"
    /\ Goto(t, IF NotRecorded(original_styles, Cur(t)) THEN "mb_rec" ELSE "mb_set")
    /\ UNCHANGED <<drvVars, osVars, storeVars, cfg, original_styles, stop_event,
                   localVars, acted>>

\* make_borderless: _original_styles[hwnd] = style; the other thread may
\* have run since the membership test
MbRec(t) ==
    /\ pc[t] = "mb_rec"
    /\ original_styles' = RecordOriginal(original_styles, Cur(t), style[t])
    /\ Goto(t, "mb_set")
    /\ UNCHANGED <<drvVars, osVars, storeVars, cfg, stop_event, localVars, acted>>

\* make_borderless: _set_style(hwnd, new_style); a raise is caught and logged
MbSet(t) ==
    /\ pc[t] = "mb_set"
    /\ \E ok \in Outcomes(Cur(t)) :
         /\ faults' = Charge(Cur(t), ok)
         /\ win' = IF ok
                   THEN [win EXCEPT ![Cur(t)].style = NewStyle(style[t])]
                   ELSE win
    /\ style' = [style EXCEPT ![t] = None]
    /\ Goto(t, ret[t])
    /\ UNCHANGED <<drvVars, procs, psutil, storeVars, cfg, original_styles,
                   stop_event, hwnds, enable, acted>>

\* restore_style: orig = _original_styles.get(hwnd); if orig is not None:
RsGet(t) ==
    /\ pc[t] = "rs_get"
    /\ style' = [style EXCEPT ![t] = original_styles[Cur(t)]]
    /\ Goto(t, IF original_styles[Cur(t)] # None THEN "rs_set" ELSE ret[t])
    /\ UNCHANGED <<drvVars, osVars, storeVars, cfg, original_styles, stop_event,
                   hwnds, enable, acted>>

\* A restore_style that deletes the entry whether or not the write raised.
RsSetThenDel(t) ==
    /\ pc[t] = "rs_set"
    /\ \E ok \in Outcomes(Cur(t)) :
         /\ faults' = Charge(Cur(t), ok)
         /\ win' = IF ok THEN [win EXCEPT ![Cur(t)].style = style[t]] ELSE win
    /\ Goto(t, "rs_del")
    /\ style' = [style EXCEPT ![t] = None]
    /\ UNCHANGED <<drvVars, procs, psutil, storeVars, cfg, original_styles,
                   stop_event, hwnds, enable, acted>>

\* restore_style: _set_style(hwnd, orig); a raise skips the del
RsSet(t) ==
    /\ pc[t] = "rs_set"
    /\ \E ok \in Outcomes(Cur(t)) :
         /\ faults' = Charge(Cur(t), ok)
         /\ win' = IF ok THEN [win EXCEPT ![Cur(t)].style = style[t]] ELSE win
         /\ Goto(t, IF ok THEN "rs_del" ELSE ret[t])
    /\ style' = [style EXCEPT ![t] = None]
    /\ UNCHANGED <<drvVars, procs, psutil, storeVars, cfg, original_styles,
                   stop_event, hwnds, enable, acted>>

\* restore_style: del _original_styles[hwnd]; the KeyError of an entry the
\* other thread removed meanwhile is caught and logged
RsDel(t) ==
    /\ pc[t] = "rs_del"
    /\ original_styles' = [original_styles EXCEPT ![Cur(t)] = None]
    /\ Goto(t, ret[t])
    /\ UNCHANGED <<drvVars, osVars, storeVars, cfg, stop_event, localVars, acted>>

\* the argument of set_topmost: cfg.get("always_on_top", False)
TopArg(t) ==
    /\ pc[t] = "top_arg"
    /\ enable' = [enable EXCEPT ![t] = Get(cfg, "always_on_top", FALSE)]
    /\ Goto(t, "top_set")
    /\ UNCHANGED <<drvVars, osVars, storeVars, cfg, original_styles, stop_event,
                   hwnds, style, acted>>

\* A set_topmost without its try / except inside a for loop without one: a
\* raise ends the cycle, leaving the handles that remain.
TopSetAbortsCycle(t) ==
    /\ pc[t] = "top_set"
    /\ \E ok \in Outcomes(Cur(t)) :
         /\ faults' = Charge(Cur(t), ok)
         /\ win' = IF ok
                   THEN [win EXCEPT ![Cur(t)].topmost = enable[t]]
                   ELSE win
         /\ hwnds' = [hwnds EXCEPT ![t] = IF ok THEN Tail(hwnds[t]) ELSE <<>>]
         /\ Goto(t, IF ok /\ Tail(hwnds[t]) # <<>> THEN "branch" ELSE AfterApply(t))
    /\ enable' = [enable EXCEPT ![t] = FALSE]
    /\ UNCHANGED <<drvVars, procs, psutil, storeVars, cfg, original_styles,
                   stop_event, style, acted>>

\* set_topmost: SetWindowPos(hwnd, HWND_TOPMOST or HWND_NOTOPMOST, ...); a
\* raise is caught and logged.  Then the for loop's next handle.
TopSet(t) ==
    /\ pc[t] = "top_set"
    /\ \E ok \in Outcomes(Cur(t)) :
         /\ faults' = Charge(Cur(t), ok)
         /\ win' = IF ok
                   THEN [win EXCEPT ![Cur(t)].topmost = enable[t]]
                   ELSE win
    /\ enable' = [enable EXCEPT ![t] = FALSE]
    /\ hwnds' = [hwnds EXCEPT ![t] = Tail(hwnds[t])]
    /\ Goto(t, IF Tail(hwnds[t]) = <<>> THEN AfterApply(t) ELSE "branch")
    /\ UNCHANGED <<drvVars, procs, psutil, storeVars, cfg, original_styles,
                   stop_event, style, acted>>

\* One step of apply_settings_once by thread t.
ApplyStep(t) ==
    \/ Find(t)
    \/ Branch(t)
    \/ MbGet(t)
    \/ MbChk(t)
    \/ MbRec(t)
    \/ MbSet(t)
    \/ RsGet(t)
    \/ RsSet(t)
    \/ RsDel(t)
    \/ TopArg(t)
    \/ TopSet(t)

\* ------------------------------------------------------------ reapply_loop

\* A loop that runs while True.
LoopCheckIgnoresFlag ==
    /\ pc["bg"] = "check"
    /\ Goto("bg", "find")
    /\ UNCHANGED <<drvVars, osVars, storeVars, cfg, original_styles, stop_event,
                   localVars, acted>>

\* while not _stop_event.is_set():
LoopCheck ==
    /\ pc["bg"] = "check"
    /\ Goto("bg", IF stop_event THEN "stopped" ELSE "find")
    /\ UNCHANGED <<drvVars, osVars, storeVars, cfg, original_styles, stop_event,
                   localVars, acted>>

\* _stop_event.wait(_REAPPLY_INTERVAL): returns when the event is set or the
\* interval has passed
LoopWait ==
    /\ pc["bg"] = "wait"
    /\ Goto("bg", "check")
    /\ UNCHANGED <<drvVars, osVars, storeVars, cfg, original_styles, stop_event,
                   localVars, acted>>

\* A step of the background thread.
BgStep == LoopCheck \/ ApplyStep("bg") \/ LoopWait

\* ----------------------------------------------------------------- startup

\* cfg = load_config(), as the module is loaded
LoadConfig ==
    /\ pc["ui"] = "load"
    /\ cfg' = load_config(file, writable).cfg
    /\ file' = load_config(file, writable).file
    /\ Goto("ui", "start_tray")
    /\ UNCHANGED <<drvVars, osVars, writable, original_styles, stop_event, localVars,
                   acted>>

\* A start_tray that creates the thread and never starts it.
StartTrayNoThread ==
    /\ pc["ui"] = "start_tray"
    /\ Goto("ui", "idle")
    /\ UNCHANGED <<drvVars, osVars, storeVars, cfg, original_styles, stop_event,
                   localVars, acted>>

\* start_tray: t.start(), then icon.run()
StartTray ==
    /\ pc["ui"] = "start_tray"
    /\ pc' = [pc EXCEPT !["ui"] = "idle", !["bg"] = "check"]
    /\ UNCHANGED <<drvVars, osVars, storeVars, cfg, original_styles, stop_event,
                   localVars, acted>>

\* --------------------------------------------------------------- tray menu

\* on_toggle_borderless: cfg["borderless"] = not cfg.get("borderless", False)
ToggleBorderless ==
    /\ pc["ui"] = "idle"
    /\ cfg' = Put(cfg, "borderless", ~Get(cfg, "borderless", FALSE))
    /\ acted' = TRUE
    /\ Goto("ui", "save")
    /\ UNCHANGED <<drvVars, osVars, storeVars, original_styles, stop_event, localVars>>

\* An on_toggle_topmost that flips the value and applies it without saving.
ToggleTopmostNoSave ==
    /\ pc["ui"] = "idle"
    /\ cfg' = Put(cfg, "always_on_top", ~Get(cfg, "always_on_top", FALSE))
    /\ acted' = TRUE
    /\ Goto("ui", "find")
    /\ UNCHANGED <<drvVars, osVars, storeVars, original_styles, stop_event, localVars>>

\* on_toggle_topmost: cfg["always_on_top"] = not cfg.get("always_on_top", False)
ToggleTopmost ==
    /\ pc["ui"] = "idle"
    /\ cfg' = Put(cfg, "always_on_top", ~Get(cfg, "always_on_top", FALSE))
    /\ acted' = TRUE
    /\ Goto("ui", "save")
    /\ UNCHANGED <<drvVars, osVars, storeVars, original_styles, stop_event, localVars>>

\* A toggle handler that goes on to apply_settings_once() without saving.
SaveToggleSkipped ==
    /\ pc["ui"] = "save"
    /\ Goto("ui", "find")
    /\ UNCHANGED <<drvVars, osVars, storeVars, cfg, original_styles, stop_event,
                   localVars, acted>>

\* the toggle handlers' save_config(cfg); apply_settings_once() comes next
SaveToggle ==
    /\ pc["ui"] = "save"
    /\ file' = save_config(file, cfg, writable).file
    /\ Goto("ui", "find")
    /\ UNCHANGED <<drvVars, osVars, writable, cfg, original_styles, stop_event,
                   localVars, acted>>

\* on_reapply_now: apply_settings_once()
ReapplyNow ==
    /\ pc["ui"] = "idle"
    /\ acted' = TRUE
    /\ Goto("ui", "find")
    /\ UNCHANGED <<drvVars, osVars, storeVars, cfg, original_styles, stop_event,
                   localVars>>

\* An on_quit that stops the icon without setting the stop flag.
QuitKeepsFlag ==
    /\ pc["ui"] = "idle"
    /\ acted' = TRUE
    /\ Goto("ui", "icon_stop")
    /\ UNCHANGED <<drvVars, osVars, storeVars, cfg, original_styles, stop_event,
                   localVars>>

\* on_quit: _stop_event.set(); icon.visible = False
Quit ==
    /\ pc["ui"] = "idle"
    /\ stop_event' = TRUE
    /\ acted' = TRUE
    /\ Goto("ui", "icon_stop")
    /\ UNCHANGED <<drvVars, osVars, storeVars, cfg, original_styles, localVars>>

\* on_quit: icon.stop(), which makes icon.run() return
IconStop ==
    /\ pc["ui"] = "icon_stop"
    /\ Goto("ui", "finally")
    /\ UNCHANGED <<drvVars, osVars, storeVars, cfg, original_styles, stop_event,
                   localVars, acted>>

\* start_tray: finally: _stop_event.set()
Finally ==
    /\ pc["ui"] = "finally"
    /\ stop_event' = TRUE
    /\ Goto("ui", "join")
    /\ UNCHANGED <<drvVars, osVars, storeVars, cfg, original_styles, localVars, acted>>

\* A join without timeout: it returns only when the thread has ended.
JoinWaits(bgEnded) == bgEnded

\* Whether t.join(timeout=1.0) can return: the thread has ended, or the
\* timeout has passed, which it always can.
JoinReturns(bgEnded) == bgEnded \/ TRUE

\* start_tray: t.join(timeout=1.0), then start_tray returns
Join ==
    /\ pc["ui"] = "join"
    /\ JoinReturns(pc["bg"] = "stopped")
    /\ Goto("ui", "returned")
    /\ UNCHANGED <<drvVars, osVars, storeVars, cfg, original_styles, stop_event,
                   localVars, acted>>

\* The main thread ends and the interpreter exits: a daemon thread still
\* running is killed where it is.
ProcessExit ==
    /\ pc["ui"] = "returned"
    /\ pc' = [pc EXCEPT !["ui"] = "exited",
                        !["bg"] = IF @ = "stopped" THEN "stopped" ELSE "killed"]
    /\ hwnds' = [hwnds EXCEPT !["bg"] = <<>>]
    /\ style' = [style EXCEPT !["bg"] = None]
    /\ enable' = [enable EXCEPT !["bg"] = FALSE]
    /\ UNCHANGED <<drvVars, osVars, storeVars, cfg, original_styles, stop_event, acted>>

\* A step of the main thread that goes on with what it has begun.
UiStep ==
    \/ LoadConfig
    \/ StartTray
    \/ SaveToggle
    \/ ApplyStep("ui")
    \/ IconStop
    \/ Finally
    \/ Join
    \/ ProcessExit

\* A click on a menu item.
Menu == ToggleBorderless \/ ToggleTopmost \/ ReapplyNow \/ Quit

\* What the OS and the other programs do.
Env == \E h \in Hwnd : CreateWindow(h) \/ DestroyWindow(h)

\* ------------------------------------------------------------ the program

\* Preference files the program may find at start: none, one that is no
\* JSON, and one with borderless on.
CorruptText == << <<"borderless", << <<"tru">> >> >> >>

StartFiles ==
    { NoFile,
      FileOf(CorruptText),
      FileOf(Dumps([DEFAULT_CFG EXCEPT !.borderless = TRUE])) }

Init ==
    /\ win = [h \in Hwnd |-> NoWindow]
    /\ procs = RunProcs
    /\ psutil = FALSE
    /\ faults = 0
    /\ file \in StartFiles
    /\ writable = TRUE
    /\ cfg = DEFAULT_CFG
    /\ original_styles = [h \in Hwnd |-> None]
    /\ stop_event = FALSE
    /\ pc = [t \in Threads |-> IF t = "ui" THEN "load" ELSE "unstarted"]
    /\ hwnds = [t \in Threads |-> <<>>]
    /\ style = [t \in Threads |-> None]
    /\ enable = [t \in Threads |-> FALSE]
    /\ ret = [t \in Threads |-> "top_arg"]
    /\ acted = FALSE
    /\ pre = [h \in Hwnd |-> None]
    /\ calls = [h \in Hwnd |-> <<>>]
    /\ ops = <<>>
    /\ loaded = DEFAULT_CFG
    /\ raised = FALSE
    /\ fileWas = NoFile
    /\ found = <<>>

Next == UiStep \/ Menu \/ BgStep \/ Env

Spec == Init /\ [][Next]_vars

\* The renderer has one window at a time: it creates a window only when it
\* has none, as when it destroys and recreates its window on a change of the
\* display mode.
RecreateWindow(h) ==
    /\ \A g \in Hwnd : win[g].state # "live"
    /\ CreateWindow(h)

EnvOne == \E h \in Hwnd : RecreateWindow(h) \/ DestroyWindow(h)

NextOne == UiStep \/ Menu \/ BgStep \/ EnvOne

\* Both threads are scheduled: a thread that can take a step takes one.  No
\* menu item has to be clicked and no window has to come or go.
FairSpec == Init /\ [][NextOne]_vars /\ WF_vars(BgStep) /\ WF_vars(UiStep)

\* Only the main thread is known to go on: the background thread may be
\* held up for any length of time inside an OS call.
MainFairSpec == Init /\ [][NextOne]_vars /\ WF_vars(UiStep)

\* ------------------------------------------- the style applier, call by call

\* The calls one run of style calls on a handle may hold.
MaxCalls == 3

\* make_borderless / restore_style called one at a time by one caller, as a
\* test of the style applier would.  A run of calls on a handle begins with
\* the first call made while the handle has no recorded original.
BeginCall(h, name, entry) ==
    /\ pc["ui"] = "caller"
    /\ win[h].state = "live"
    /\ hwnds' = [hwnds EXCEPT !["ui"] = <<h>>]
    /\ Goto("ui", entry)
    /\ IF original_styles[h] = None
       THEN /\ pre' = [pre EXCEPT ![h] = win[h].style]
            /\ calls' = [calls EXCEPT ![h] = <<name>>]
       ELSE /\ Len(calls[h]) < MaxCalls
            /\ pre' = pre
            /\ calls' = [calls EXCEPT ![h] = Append(@, name)]
    /\ UNCHANGED <<osVars, storeVars, cfg, original_styles, stop_event,
                   style, enable, ret, acted, ops, loaded, raised, fileWas,
                   found>>

CallMakeBorderless == \E h \in Hwnd : BeginCall(h, "make_borderless", "mb_get")

CallRestoreStyle == \E h \in Hwnd : BeginCall(h, "restore_style", "rs_get")

\* The steps of the two calls.
StyleStep ==
    \/ MbGet("ui")
    \/ MbChk("ui")
    \/ MbRec("ui")
    \/ MbSet("ui")
    \/ RsGet("ui")
    \/ RsSet("ui")
    \/ RsDel("ui")

AllStyles == SUBSET StyleBits

InitStyle ==
    /\ win \in [Hwnd -> {NewWindow(DefaultTitle, TRUE, 1, st, FALSE) :
                           st \in AllStyles}]
    /\ \A h \in Hwnd \ {1} : win[h].style \in InitStyles
    /\ procs = RunProcs
    /\ psutil = FALSE
    /\ faults = 0
    /\ file = NoFile
    /\ writable = TRUE
    /\ cfg = DEFAULT_CFG
    /\ original_styles = [h \in Hwnd |-> None]
    /\ stop_event = FALSE
    /\ pc = [t \in Threads |-> IF t = "ui" THEN "caller" ELSE "unstarted"]
    /\ hwnds = [t \in Threads |-> <<>>]
    /\ style = [t \in Threads |-> None]
    /\ enable = [t \in Threads |-> FALSE]
    /\ ret = [t \in Threads |-> "caller"]
    /\ acted = FALSE
    /\ pre = [h \in Hwnd |-> None]
    /\ calls = [h \in Hwnd |-> <<>>]
    /\ ops = <<>>
    /\ loaded = DEFAULT_CFG
    /\ raised = FALSE
    /\ fileWas = NoFile
    /\ found = <<>>

NextStyle == CallMakeBorderless \/ CallRestoreStyle \/ StyleStep

SpecStyle == InitStyle /\ [][NextStyle]_vars

\* ------------------------------------------ the preference store, call by call

\* The preference store calls one run may hold.
MaxOps == 3

\* The title lists of the records tried: the default, a list with an empty
\* string and an upper-case substring, an empty list.
TitleLists ==
    { <<DefaultTitle>>,
      << <<>>, <<"X">> >>,
      <<>> }

\* The records tried: every pair of booleans with every title list, and
\* records that lack title_substrings or always_on_top.
StoreRecords ==
    [borderless : BOOLEAN, always_on_top : BOOLEAN, title_substrings : TitleLists]
      \cup [borderless : BOOLEAN, always_on_top : BOOLEAN]
      \cup [borderless : BOOLEAN]

\* Texts json.loads raises on: an empty file, a bad literal, an unterminated
\* string.
CorruptTexts ==
    { <<>>,
      CorruptText,
      << <<"borderless", << <<"true">> >> >>,
         <<"title_substrings", << <<"\"", "D">> >> >> >> }

StoreFiles ==
    {NoFile} \cup {FileOf(t) : t \in CorruptTexts}
             \cup {FileOf(Dumps(r)) : r \in StoreRecords}

\* save_config(cfg), called on the record in cfg
SaveCall ==
    /\ pc["ui"] = "store"
    /\ Len(ops) < MaxOps
    /\ fileWas' = file
    /\ file' = save_config(file, cfg, writable).file
    /\ raised' = save_config(file, cfg, writable).raised
    /\ ops' = Append(ops, "save")
    /\ UNCHANGED <<osVars, writable, cfg, original_styles, stop_event, pc,
                   localVars, ret, acted, pre, calls, loaded, found>>

\* load_config()
LoadCall ==
    /\ pc["ui"] = "store"
    /\ Len(ops) < MaxOps
    /\ fileWas' = file
    /\ file' = load_config(file, writable).file
    /\ loaded' = load_config(file, writable).cfg
    /\ raised' = load_config(file, writable).raised
    /\ ops' = Append(ops, "load")
    /\ UNCHANGED <<osVars, writable, cfg, original_styles, stop_event, pc,
                   localVars, ret, acted, pre, calls, found>>

InitStore ==
    /\ win = [h \in Hwnd |-> NoWindow]
    /\ procs = RunProcs
    /\ psutil = FALSE
    /\ faults = 0
    /\ file \in StoreFiles
    /\ writable \in BOOLEAN
    /\ cfg \in StoreRecords
    /\ original_styles = [h \in Hwnd |-> None]
    /\ stop_event = FALSE
    /\ pc = [t \in Threads |-> IF t = "ui" THEN "store" ELSE "unstarted"]
    /\ hwnds = [t \in Threads |-> <<>>]
    /\ style = [t \in Threads |-> None]
    /\ enable = [t \in Threads |-> FALSE]
    /\ ret = [t \in Threads |-> "store"]
    /\ acted = FALSE
    /\ pre = [h \in Hwnd |-> None]
    /\ calls = [h \in Hwnd |-> <<>>]
    /\ ops = <<>>
    /\ loaded = DEFAULT_CFG
    /\ raised = FALSE
    /\ fileWas = NoFile
    /\ found = <<>>

NextStore == SaveCall \/ LoadCall

SpecStore == InitStore /\ [][NextStore]_vars

\* ------------------------------------- the preferences, from load to toggles

\* The program started on any of the preference files, with no window on the
\* screen: the load, the start of the tray, the toggles with their save and
\* their apply cycle, reapply-now, and the loop's cycles, each of which ends
\* at its find.
InitPrefs ==
    /\ win = [h \in Hwnd |-> NoWindow]
    /\ procs = RunProcs
    /\ psutil = FALSE
    /\ faults = 0
    /\ file \in StoreFiles
    /\ writable = TRUE
    /\ cfg = DEFAULT_CFG
    /\ original_styles = [h \in Hwnd |-> None]
    /\ stop_event = FALSE
    /\ pc = [t \in Threads |-> IF t = "ui" THEN "load" ELSE "unstarted"]
    /\ hwnds = [t \in Threads |-> <<>>]
    /\ style = [t \in Threads |-> None]
    /\ enable = [t \in Threads |-> FALSE]
    /\ ret = [t \in Threads |-> "top_arg"]
    /\ acted = FALSE
    /\ pre = [h \in Hwnd |-> None]
    /\ calls = [h \in Hwnd |-> <<>>]
    /\ ops = <<>>
    /\ loaded = DEFAULT_CFG
    /\ raised = FALSE
    /\ fileWas = NoFile
    /\ found = <<>>

NextPrefs ==
    \/ LoadConfig
    \/ StartTray
    \/ ToggleBorderless
    \/ ToggleTopmost
    \/ SaveToggle
    \/ ReapplyNow
    \/ Find("ui")
    \/ LoopCheck
    \/ Find("bg")
    \/ LoopWait

SpecPrefs == InitPrefs /\ [][NextPrefs]_vars

\* ---------------------------------------------- the window locator, by call

\* The window titles tried: the renderer's, one that holds it in lower case
\* between other characters, another program's, none.
FindTitles ==
    { DefaultTitle,
      <<"x", "d", "3", "r", "x">>,
      <<"x">>,
      <<>> }

\* The windows tried on one handle: none, or a window of pid 1 or pid 2,
\* visible or hidden, with one of the titles.
FindWindows ==
    {NoWindow} \cup
    { NewWindow(title, vis, pid, StyleBits, FALSE) :
        title \in FindTitles, vis \in BOOLEAN, pid \in {1, 2} }

\* The process lists tried: pid 1 is uxplay.exe in mixed case (pid 2 is
\* another program), pid 1 is uxplay listed twice, no uxplay process.
FindProcs ==
    { << [pid |-> 2, name |-> OtherName], [pid |-> 1, name |-> ExeNameMixed] >>,
      << [pid |-> 1, name |-> BareName], [pid |-> 1, name |-> BareName] >>,
      << [pid |-> 1, name |-> OtherName], [pid |-> 2, name |-> OtherName] >> }

\* The records tried: each title list, and a record without
\* title_substrings.
FindRecords ==
    { [DEFAULT_CFG EXCEPT !.title_substrings = tl] : tl \in TitleLists }
      \cup { [borderless |-> FALSE, always_on_top |-> FALSE] }

\* find_uxplay_windows()
FindCall ==
    /\ pc["ui"] = "locate"
    /\ found' = find_uxplay_windows(win, cfg, psutil, procs)
    /\ Goto("ui", "located")
    /\ UNCHANGED <<osVars, storeVars, cfg, original_styles, stop_event,
                   localVars, ret, acted, pre, calls, ops, loaded, raised,
                   fileWas>>

\* The caller goes on to its next call.
FindAgain ==
    /\ pc["ui"] = "located"
    /\ found' = <<>>
    /\ Goto("ui", "locate")
    /\ UNCHANGED <<osVars, storeVars, cfg, original_styles, stop_event,
                   localVars, ret, acted, pre, calls, ops, loaded, raised,
                   fileWas>>

InitFind ==
    /\ win \in [Hwnd -> FindWindows]
    /\ procs \in FindProcs
    /\ psutil \in BOOLEAN
    /\ faults = 0
    /\ file = NoFile
    /\ writable = TRUE
    /\ cfg \in FindRecords
    /\ original_styles = [h \in Hwnd |-> None]
    /\ stop_event = FALSE
    /\ pc = [t \in Threads |-> IF t = "ui" THEN "locate" ELSE "unstarted"]
    /\ hwnds = [t \in Threads |-> <<>>]
    /\ style = [t \in Threads |-> None]
    /\ enable = [t \in Threads |-> FALSE]
    /\ ret = [t \in Threads |-> "locate"]
    /\ acted = FALSE
    /\ pre = [h \in Hwnd |-> None]
    /\ calls = [h \in Hwnd |-> <<>>]
    /\ ops = <<>>
    /\ loaded = DEFAULT_CFG
    /\ raised = FALSE
    /\ fileWas = NoFile
    /\ found = <<>>

NextFind == FindCall \/ FindAgain

SpecFind == InitFind /\ [][NextFind]_vars

\* ================================================================= claims

Last(s) == s[Len(s)]

\* ---- C1 (SpecStyle)

\* A run of one or more make_borderless calls followed by one restore_style.
IsRoundTrip(cs) ==
    /\ Len(cs) >= 2
    /\ cs[Len(cs)] = "restore_style"
    /\ \A i \in 1..(Len(cs) - 1) : cs[i] = "make_borderless"

\* C1 as stated: after one or more make_borderless calls and one
\* restore_style call on a handle, the window's style is the style it had
\* before the first make_borderless.
C1_Original ==
    \A h \in Hwnd :
        (pc["ui"] = "caller" /\ IsRoundTrip(calls[h]))
            => win[h].style = pre[h]

\* C1, amended: the recorded original of a handle is always the style the
\* window had before the first make_borderless of the run (a later
\* make_borderless never overwrites it), and after one or more
\* make_borderless calls and one restore_style call whose write succeeded
\* (the entry is gone) the window's style is that style again; when the write
\* raised, the entry is kept.
C1_RoundTrip ==
    \A h \in Hwnd :
        /\ original_styles[h] # None => original_styles[h] = pre[h]
        /\ (pc["ui"] = "caller" /\ IsRoundTrip(calls[h])
               /\ original_styles[h] = None)
             => win[h].style = pre[h]

\* Two make_borderless calls that cleared chrome bits, then a restore_style
\* that put them back.
C1_Witness ==
    \E h \in Hwnd :
        /\ pc["ui"] = "caller"
        /\ calls[h] = <<"make_borderless", "make_borderless", "restore_style">>
        /\ faults = 0
        /\ original_styles[h] = None
        /\ pre[h] \cap ChromeBits # {}
        /\ win[h].style = pre[h]

\* ---- C5 (SpecFind)

\* The window's title contains, case-insensitively, a configured substring.
HasConfiguredTitle(h) ==
    \E i \in 1..Len(Get(cfg, "title_substrings", <<>>)) :
        Contains(Lower(Get(cfg, "title_substrings", <<>>)[i]),
                 Lower(win[h].title))

\* A visible window with a title that holds a non-empty configured substring.
IsTitleMatch(h) ==
    /\ win[h].state = "live"
    /\ win[h].visible
    /\ win[h].title # <<>>
    /\ \E i \in 1..Len(Get(cfg, "title_substrings", <<>>)) :
         /\ Get(cfg, "title_substrings", <<>>)[i] # <<>>
         /\ Contains(Lower(Get(cfg, "title_substrings", <<>>)[i]),
                     Lower(win[h].title))

\* A visible window with a title, owned by a process named uxplay.exe or
\* uxplay in any case.
IsProcessMatch(h) ==
    /\ win[h].state = "live"
    /\ win[h].visible
    /\ win[h].title # <<>>
    /\ \E i \in 1..Len(procs) :
         /\ procs[i].pid = win[h].pid
         /\ Lower(procs[i].name) \in {ExeName, BareName}

C6_LoadDefaults ==
    (ops # <<>> /\ Last(ops) = "load"
        /\ (fileWas = NoFile \/ fileWas.text \in CorruptTexts))
      => (loaded = DEFAULT_CFG /\ ~raised)

\* A load of an unparsable file on a path that cannot be written.
C6_Witness ==
    /\ ops # <<>>
    /\ Last(ops) = "load"
    /\ fileWas.exists
    /\ fileWas.text \in CorruptTexts
    /\ ~writable
    /\ file = fileWas
    /\ loaded = DEFAULT_CFG

\* ---- C7 (SpecStore)

\* C7: save_config(record) followed by load_config() returns a record equal
\* to the saved one, key by key, when the file can be written.
C7_SaveLoad ==
    (Len(ops) >= 2 /\ ops[Len(ops) - 1] = "save" /\ Last(ops) = "load"
        /\ writable)
      => (loaded = cfg /\ ~raised)

\* A record that differs from the defaults in every key, saved over an
\* unparsable file and loaded back.
C7_Witness ==
    /\ ops = <<"save", "load">>
    /\ writable
    /\ cfg = [borderless |-> TRUE, always_on_top |-> TRUE,
              title_substrings |-> << <<>>, <<"X">> >>]
    /\ loaded = cfg

\* ---- C2 (FairSpec)

\* The window's caption and frame bits are cleared.
Cleared(h) == win[h].style \cap ChromeBits = {}

\* The window is as the stored preferences ask.
Converged(h) ==
    /\ Get(cfg, "borderless", FALSE) => Cleared(h)
    /\ ~Get(cfg, "borderless", FALSE) => win[h].style = win[h].born
    /\ win[h].topmost = Get(cfg, "always_on_top", FALSE)

\* C2 as stated: once the preferences stop changing, then, unless the user
\* quits, from some time on every target window that is present has its
\* chrome bits cleared if borderless is on and has its original style if it
\* is off, and is topmost exactly if always_on_top is on.
C2_Converges ==
    (<>[][cfg' = cfg]_vars)
      => (<>stop_event \/ <>[](\A h \in Hwnd : IsTitleMatch(h) => Converged(h)))

\* ---- C3 (Spec)

\* The preference file holds the in-memory record.
Persisted == file.exists /\ Parses(file.text) /\ Loads(file.text) = cfg

\* Thread t reads a preference in its apply cycle.
ReadsPreference(t) == Branch(t) \/ TopArg(t)

\* C3 as stated: no apply cycle reads a preference value that the file does
\* not hold yet.
C3_Original ==
    [][\A t \in Threads : ReadsPreference(t) => Persisted]_vars

\* C3, amended: a toggle handler writes the new value to the preference file
\* (here a file that can be written) before its own apply cycle reads a
\* preference, so every read of the handler's cycle finds the value in the
\* file; a cycle of the background loop reads a value the file does not hold
\* only between the handler's flip and its write.
C3_SavedBeforeOwnApply ==
    [][/\ ReadsPreference("ui") => Persisted
       /\ ReadsPreference("bg") => (Persisted \/ pc["ui"] = "save")]_vars

\* The handler's own cycle has read the flipped borderless value, which the
\* file holds, while the background loop is in a cycle of its own.
C3_Witness ==
    /\ pc["ui"] = "mb_get"
    /\ Get(cfg, "borderless", FALSE)
    /\ Get(cfg, "always_on_top", FALSE)
    /\ Persisted
    /\ pc["bg"] = "top_arg"

\* ---- C4 (FairSpec)

BgEnded == pc["bg"] \in {"stopped", "killed"}

\* C4: the loop runs, with the flag clear, from the moment start_tray starts
\* it; quit sets the flag; the flag is never cleared; the loop ends only with
\* the flag set, begins no cycle at a check that finds the flag set, stays
\* ended, and once the flag is set it does end (it leaves its while loop, or
\* the exiting process ends its daemon thread first).
C4_Lifecycle ==
    /\ [][(pc["ui"] = "start_tray" /\ pc'["ui"] # "start_tray")
            => (pc'["bg"] = "check" /\ ~stop_event')]_vars
    /\ [][(pc["ui"] = "idle" /\ pc'["ui"] = "icon_stop") => stop_event']_vars
    /\ [][stop_event => stop_event']_vars
    /\ [][(~BgEnded /\ BgEnded') => stop_event]_vars
    /\ [][(pc["bg"] = "check" /\ stop_event /\ pc'["bg"] # "check")
            => BgEnded']_vars
    /\ [][BgEnded => BgEnded']_vars
    /\ (stop_event ~> BgEnded)

\* The loop has seen the flag and left its while loop while start_tray is
\* still at its join.
C4_Witness ==
    /\ stop_event
    /\ pc["bg"] = "stopped"
    /\ pc["ui"] = "join"

\* ---- C8 (FairSpec)

\* C8: when the tray starts with borderless on, loaded from the preference
\* file, and a target window is present, that window's chrome bits get
\* cleared, unless the user clicks a menu item or the window goes away first.
C8_BorderlessAtStart ==
    \A h \in Hwnd :
        (pc["ui"] = "start_tray" /\ Get(cfg, "borderless", FALSE)
            /\ IsTitleMatch(h))
          ~> (Cleared(h) \/ acted \/ ~IsTitleMatch(h))

\* No menu item was clicked, and a window created with chrome has lost it,
\* its original style recorded.
C8_Witness ==
    /\ ~acted
    /\ pc["ui"] = "idle"
    /\ \E h \in Hwnd :
         /\ IsTitleMatch(h)
         /\ win[h].born \cap ChromeBits # {}
         /\ Cleared(h)
         /\ original_styles[h] = win[h].born

\* ---- C9 (Spec)

\* The default record is in force and no menu item was clicked yet.
DefaultsUntouched ==
    /\ ~acted
    /\ pc["ui"] = "idle"
    /\ ~Get(cfg, "borderless", FALSE)
    /\ ~Get(cfg, "always_on_top", FALSE)

\* C9 as stated: with both preferences false and no borderless ever applied,
\* the reapply cycles leave every window's style and topmost state as they
\* were.
C9_Original ==
    DefaultsUntouched =>
        \A h \in Hwnd :
            win[h].state = "live" =>
                /\ win[h].style = win[h].born
                /\ win[h].topmost = win[h].bornTop

\* C9, amended: with both preferences false and no borderless ever applied,
\* the reapply cycles leave every window's style as it was and never make a
\* window topmost; a window that was not topmost stays so, and each
\* set_topmost call of a cycle that succeeds leaves its window not topmost,
\* also a window that was topmost before.
C9_StyleKept ==
    /\ [](DefaultsUntouched =>
            \A h \in Hwnd :
                win[h].state = "live" =>
                    /\ win[h].style = win[h].born
                    /\ win[h].topmost => win[h].bornTop
                    /\ original_styles[h] = None)
    /\ [][(DefaultsUntouched /\ TopSet("bg") /\ win' # win)
            => ~win'[Cur("bg")].topmost]_vars

\* The loop has found a window that was created topmost with its chrome, and
\* left its style alone and made it not topmost.
C9_Witness ==
    /\ DefaultsUntouched
    /\ pc["bg"] = "wait"
    /\ \E h \in Hwnd :
         /\ IsTitleMatch(h)
         /\ win[h].bornTop
         /\ ~win[h].topmost
         /\ win[h].born \cap ChromeBits # {}
         /\ win[h].style = win[h].born

\* ---- C10 (MainFairSpec)

\* C10: once quit has set the flag and stopped the icon, the flag stays set
\* and start_tray returns, whatever the background thread is doing.
C10_Shutdown ==
    /\ [](pc["ui"] \in {"icon_stop", "finally", "join", "returned", "exited"}
            => stop_event)
    /\ (pc["ui"] = "icon_stop" ~> pc["ui"] \in {"returned", "exited"})

\* start_tray has returned while the background thread is in the middle of a
\* cycle.
C10_Witness ==
    /\ pc["ui"] = "returned"
    /\ pc["bg"] \in {"mb_set", "rs_set", "top_set"}

\* ---- C11 (Spec)

\* The style of every window, by handle.
StylesOf(w) == [h \in Hwnd |-> w[h].style]

\* C11 as stated: no step of a menu handler on the main thread adds or
\* removes an entry of _original_styles or changes a window's style.
C11_OnlyBackgroundWrites ==
    [][ApplyStep("ui")
         => (original_styles' = original_styles
               /\ StylesOf(win') = StylesOf(win))]_vars

\* ---- C12 (Spec)

\* Where a thread is while it works on a located handle.
StyleStates == {"mb_get", "mb_chk", "mb_rec", "mb_set", "rs_get", "rs_set", "rs_del"}

CycleStates == {"branch", "top_arg", "top_set"} \cup StyleStates

\* C12: whatever OS call fails, a thread in a cycle goes from the branch
\* into the style step of the handle, from the style step to the topmost
\* step, and from the topmost step to the next handle; a handle leaves the
\* list only after its topmost step, one at a time, and the cycle ends only
\* when the list is empty.  The loop goes from its wait to its check and
\* from a check that finds the flag clear into the next cycle.
C12_CycleGoesOn ==
    /\ [][\A t \in Threads :
            (pc[t] \in CycleStates /\ pc'[t] # pc[t] /\ pc'[t] # "killed")
              => IF pc[t] = "top_set"
                 THEN /\ hwnds'[t] = Tail(hwnds[t])
                      /\ pc'[t] = IF Tail(hwnds[t]) = <<>>
                                  THEN AfterApply(t) ELSE "branch"
                 ELSE /\ hwnds'[t] = hwnds[t]
                      /\ pc[t] = "branch" => pc'[t] \in {"mb_get", "rs_get"}
                      /\ pc[t] \in StyleStates
                           => pc'[t] \in StyleStates \cup {"top_arg"}
                      /\ pc[t] = "top_arg" => pc'[t] = "top_set"]_vars
    /\ [][(pc["bg"] = "wait" /\ pc'["bg"] # "wait")
            => pc'["bg"] \in {"check", "killed"}]_vars
    /\ [][(pc["bg"] = "check" /\ ~stop_event /\ pc'["bg"] # "check")
            => pc'["bg"] \in {"find", "killed"}]_vars

\* No menu item was clicked; the write of the borderless style to window 1
\* failed in this cycle of the loop (the original is recorded, the chrome is
\* still there, the one transient failure is spent), and the loop is at the
\* branch of window 2.
C12_Witness ==
    /\ ~acted
    /\ Get(cfg, "borderless", FALSE)
    /\ faults = MaxFaults
    /\ pc["bg"] = "branch"
    /\ hwnds["bg"] = <<2>>
    /\ IsTitleMatch(1)
    /\ win[1].born \cap ChromeBits # {}
    /\ win[1].style = win[1].born
    /\ original_styles[1] = win[1].born

\* ---- C13 (Spec)

\* C13 as stated: a window whose chrome bits this program cleared (its style
\* is no longer the one it was created with) has its original style recorded
\* in _original_styles.
C13_ClearedIsRecorded ==
    \A h \in Hwnd :
        (win[h].state = "live" /\ win[h].style # win[h].born)
            => original_styles[h] = win[h].born

\* ---- C14 (SpecPrefs)

\* The preference file holds the two booleans of the in-memory record, a
\* key that is missing reading as false on both sides.
PrefsInFile ==
    /\ file.exists
    /\ Parses(file.text)
    /\ \A k \in {"borderless", "always_on_top"} :
         Get(Loads(file.text), k, FALSE) = Get(cfg, k, FALSE)

\* C14: once load_config has returned, and except between a toggle's flip
\* and its save, the preference file (which can be written) holds the
\* borderless and always_on_top values of the in-memory record.
C14_WrittenBack == pc["ui"] \notin {"load", "save"} => PrefsInFile

\* Both toggles were clicked on a record loaded from a file that held only
\* borderless = false; the file holds both values, now true.
C14_Witness ==
    /\ pc["ui"] = "idle"
    /\ acted
    /\ DOMAIN cfg = {"borderless", "always_on_top"}
    /\ cfg["borderless"]
    /\ cfg["always_on_top"]
    /\ file = FileOf(Dumps(cfg))
    /\ pc["bg"] = "wait"

\* ---- C15 (Spec)

\* Some thread is at the given position of a call on handle h.
At(where, h) ==
    \E t \in Threads : pc[t] = where /\ hwnds[t] # <<>> /\ Cur(t) = h

\* C15 as stated: an entry is created only by make_borderless on a handle
\* without entry, is never overwritten while it exists, and is removed only
\* by restore_style on that handle; the destruction of a window leaves the
\* map as it is, and the entry of a destroyed window stays: no restore_style
\* gets to its del by a write to a destroyed window (one whose write
\* succeeded before the destruction is the restore_style that removes it).
C15_EntryLifecycle ==
    [][\A h \in Hwnd :
         /\ original_styles'[h] # original_styles[h]
              => \/ original_styles[h] = None /\ At("mb_rec", h)
                 \/ original_styles'[h] = None /\ At("rs_del", h)
         /\ (win[h].state = "live" /\ win'[h].state = "dead")
              => original_styles' = original_styles
         /\ (win[h].state = "dead" /\ ~At("rs_del", h))
              => /\ (~At("rs_del", h))'
                 /\ original_styles[h] # None
                      => original_styles'[h] = original_styles[h]]_vars

\* ---- C16 (SpecFind)

\* The handles of the windows that match by title, in enumeration order.
TitleMatched ==
    SelectSeq([i \in 1..MaxHwnd |-> i], LAMBDA h : IsTitleMatch(h))

\* C16: when some visible window matches by title, or psutil is missing,
\* find_uxplay_windows returns exactly the windows that match by title, in
\* enumeration order, whatever the processes are.
C16_TitleScanOnly ==
    (pc["ui"] = "located" /\ (TitleMatched # <<>> \/ ~psutil))
        => found = TitleMatched

\* psutil is there and lists a uxplay process that owns a visible titled
\* window, which the result leaves out: the one window that matches by
\* title is returned alone.
C16_Witness ==
    /\ pc["ui"] = "located"
    /\ psutil
    /\ Len(found) = 1
    /\ IsTitleMatch(found[1])
    /\ ~IsProcessMatch(found[1])
    /\ \E g \in Hwnd : IsProcessMatch(g) /\ ~IsTitleMatch(g)

\* ---- C17 (Spec)

\* C17: a cycle whose find returns nothing ends there: that step changes no
\* window, no entry of _original_styles, no preference and no file, and the
\* thread goes back to its caller (the loop to its wait); a thread is inside
\* the for loop only with a handle to work on.
C17_EmptyCycleSkipped ==
    /\ [][\A t \in Threads :
            (pc[t] = "find" /\ pc'[t] = AfterApply(t))
              => /\ hwnds'[t] = <<>>
                 /\ win' = win
                 /\ original_styles' = original_styles
                 /\ cfg' = cfg
                 /\ file' = file]_vars
    /\ [](\A t \in Threads : pc[t] \in CycleStates => hwnds[t] # <<>>)
    /\ [][\A t \in Threads :
            (pc[t] = "find" /\ pc'[t] \in CycleStates)
              => \E h \in Hwnd : win[h].state = "live" /\ h = Cur(t)']_vars

\* Borderless is on, the only window there ever was is another program's,
\* and the loop has finished a cycle: the window is as it was created and
\* nothing is recorded.
C17_Witness ==
    /\ ~acted
    /\ Get(cfg, "borderless", FALSE)
    /\ pc["bg"] = "wait"
    /\ win[1].state = "live"
    /\ ~IsTitleMatch(1)
    /\ win[2].state = "none"
    /\ win[1].style = win[1].born
    /\ win[1].born \cap ChromeBits # {}
    /\ original_styles[1] = None

\* ---- C18 (SpecStyle)

\* The OS call of this step raised: a transient failure was charged, or the
\* window is gone.
CallFailed(t) == faults' # faults \/ win[Cur(t)].state # "live"

\* C18: restore_style gets to its del only from a write of the recorded
\* original that succeeded, and an entry goes away only at that del; when
\* the write raises, the call ends with the map and the window as they
\* were; when make_borderless cannot read the style, the call ends with the
\* map and the window as they were.
C18_KeptOnFailure ==
    [][\A t \in Threads :
         /\ (pc[t] = "rs_set" /\ pc'[t] # "rs_set")
              => IF CallFailed(t)
                 THEN /\ pc'[t] = ret[t]
                      /\ original_styles' = original_styles
                      /\ win' = win
                 ELSE /\ pc'[t] = "rs_del"
                      /\ original_styles' = original_styles
                      /\ win'[Cur(t)].style = original_styles[Cur(t)]
         /\ (pc'[t] = "rs_del" /\ pc[t] # "rs_del")
              => (pc[t] = "rs_set" /\ ~CallFailed(t))
         /\ (pc[t] = "mb_get" /\ pc'[t] # "mb_get" /\ CallFailed(t))
              => /\ pc'[t] = ret[t]
                 /\ original_styles' = original_styles
                 /\ win' = win
         /\ \A h \in Hwnd :
              (original_styles[h] # None /\ original_styles'[h] = None)
                => At("rs_del", h)]_vars

\* make_borderless cleared the chrome of a window and the write of
\* restore_style raised: the call is over, the window is still borderless
\* and its original is still recorded.
C18_Witness ==
    \E h \in Hwnd :
        /\ pc["ui"] = "caller"
        /\ calls[h] = <<"make_borderless", "restore_style">>
        /\ faults = 1
        /\ pre[h] \cap ChromeBits # {}
        /\ win[h].style = pre[h] \ ChromeBits
        /\ original_styles[h] = pre[h]

\* ---- C19 (Spec)

\* C19: with the flag set the loop never gets to the start of a cycle, so
\* the only cycle it begins after the flag was set is the one it was about
\* to begin, its check having found the flag clear; a check that finds the
\* flag set ends the loop, and the loop once ended begins nothing.
C19_AtMostOneMoreCycle ==
    /\ [][(stop_event /\ pc'["bg"] = "find") => pc["bg"] = "find"]_vars
    /\ [][(stop_event /\ pc["bg"] = "check" /\ pc'["bg"] # "check")
            => pc'["bg"] \in {"stopped", "killed"}]_vars
    /\ [][pc["bg"] \in {"stopped", "killed"} => pc'["bg"] = pc["bg"]]_vars

\* Quit has just set the flag while the loop, its check passed, is about to
\* begin a cycle with a target window on the screen.
C19_Witness ==
    /\ stop_event
    /\ pc["ui"] = "icon_stop"
    /\ pc["bg"] = "find"
    /\ \E h \in Hwnd : IsTitleMatch(h)

====
